---- MODULE Spec2Model ----
(***************************************************************************)
(* Model of the fault-detection engine of labqcpro                         *)
(* (src/advanced_fault_detection.py, class AdvancedFaultDetector).         *)
(*                                                                         *)
(* Spec: one behaviour is one call of comprehensive_analysis(values): the  *)
(* six detector passes in source order, the concat + sort, the optional    *)
(* save block and the summary; a detector that raises ends the call.       *)
(* SpecDetector: one behaviour is one call of a single detector method.    *)
(* SpecInvalidStd: Spec for a detector constructed with std < 0.           *)
(* SpecStream: the streaming web monitor (src/realtime_qc_monitor.py): the *)
(* data_generator thread interleaved with the Dash callbacks.              *)
(*                                                                         *)
(* Numbers.  The source computes in floating point; the model computes the  *)
(* same expressions over exact rationals.  A measurement is an integer     *)
(* number of units, mean and std are integers, and every comparison of the *)
(* source (z > 3, cusum > h, ewma > ucl, ...) is decided exactly by        *)
(* clearing denominators.  Indices are 0-based as in the source; At(s, i)  *)
(* reads element i of a series.                                            *)
(***************************************************************************)
EXTENDS Integers, Sequences, FiniteSets, TLC

VARIABLES
    mean,            \* self.mean
    std,             \* self.std
    ewma_lambda,     \* self.ewma_lambda, a rational [num, den]
    values,          \* the series handed to the analysis
    threshold,       \* threshold argument of anomaly_detection_zscore, in tenths
    pc,              \* position inside comprehensive_analysis
    westgard,        \* result of extended_westgard_rules
    cusum_result,    \* result of cusum_detection
    ewma_result,     \* result of ewma_detection
    anomalies,       \* result of anomaly_detection_zscore
    trends,          \* result of trend_detection
    runs,            \* result of run_analysis
    all_violations,  \* the merged, sorted report
    summary,         \* result of _generate_summary
    save_dir,        \* save_dir argument of comprehensive_analysis
    files,           \* names of the CSV files the call has written
    data_storage,    \* realtime_qc_monitor.data_storage
    stats_storage,   \* realtime_qc_monitor.stats_storage
    alert_flags,     \* realtime_qc_monitor.alert_flags
    producer,        \* the data_generator thread: position and locals
    callback,        \* the Dash callback being served: position and locals
    out,             \* what the last finished callback returned
    now,             \* datetime.now(), in measurements generated so far
    n_calls,         \* callbacks served so far
    measured         \* history: <<analyte, time, value>> of every measurement

batchVars == <<mean, std, ewma_lambda, values, threshold, pc, westgard,
               cusum_result, ewma_result, anomalies, trends, runs,
               all_violations, summary, save_dir, files>>

streamVars == <<data_storage, stats_storage, alert_flags, producer, callback,
                out, now, n_calls, measured>>

vars == <<batchVars, streamVars>>

---------------------------------------------------------------------------
(* Bounds of the checked input space *)

ShortLen == 3     \* every series over Levels up to this length
MaxLen   == 20    \* longest constant / single-spike series
AltLen   == 10    \* longest alternating series
RampLen  == 12    \* longest ramp series
AboveTail == 2    \* points following a ten-point same-side run

---------------------------------------------------------------------------
(* Generic helpers *)

Abs(x) == IF x < 0 THEN -x ELSE x

Sign(x) == IF x > 0 THEN 1 ELSE IF x < 0 THEN -1 ELSE 0

Max(a, b) == IF a >= b THEN a ELSE b

\* element i (0-based) of a series
At(s, i) == s[i + 1]

\* Python slice s[a:b] with 0 <= a <= b <= len(s)
Slice(s, a, b) == SubSeq(s, a + 1, b)

\* concatenation of a sequence of sequences (the appends of a Python for loop,
\* one element of ss per iteration, in iteration order)
RECURSIVE Flatten(_)
Flatten(ss) == IF ss = <<>> THEN <<>> ELSE Head(ss) \o Flatten(Tail(ss))

\* a/b > c/d for b > 0, d > 0, decided without forming products
RECURSIVE FracGT(_, _, _, _)
FracGT(a, b, c, d) ==
    LET qa == a \div b
        qc == c \div d
        ra == a % b
        rc == c % d
    IN  IF qa # qc THEN qa > qc
        ELSE IF ra = 0 THEN FALSE
        ELSE IF rc = 0 THEN TRUE
        ELSE FracGT(d, rc, b, ra)

---------------------------------------------------------------------------
(* z-scores: z = (value - mean) / std, compared exactly *)

\* (v - mean) / std > c
ZGreater(v, c) == IF std > 0 THEN v - mean > c * std ELSE v - mean < c * std

\* (v - mean) / std < c
ZLess(v, c) == IF std > 0 THEN v - mean < c * std ELSE v - mean > c * std

\* abs((v - mean) / std) > c, for c >= 0
AbsZGreater(v, c) == ZGreater(v, c) \/ ZLess(v, -c)

\* np.sign((v - mean) / std)
ZSign(v) == Sign(v - mean) * Sign(std)

---------------------------------------------------------------------------
(* extended_westgard_rules *)

\* a Westgard violation row that numbers the points from 1
WVOneBased(i, rule, severity) ==
    [index |-> i + 1, rule |-> rule, severity |-> severity]

WV(i, rule, severity) == [index |-> i, rule |-> rule, severity |-> severity]

\* Rule 1-3s with the boundary included: abs(z_score) >= 3
Rule13sInclusive(vals, i) ==
    \/ AbsZGreater(At(vals, i), 3)
    \/ Abs(At(vals, i) - mean) = 3 * Abs(std)

\* Rule 1-3s: abs(z_score) > 3
Rule13s(vals, i) == AbsZGreater(At(vals, i), 3)

\* Rule 2-2s: i > 0, abs(z_score) > 2, abs(z_prev) > 2, same sign
Rule22s(vals, i) ==
    /\ i > 0
    /\ AbsZGreater(At(vals, i), 2)
    /\ AbsZGreater(At(vals, i - 1), 2)
    /\ ZSign(At(vals, i)) = ZSign(At(vals, i - 1))

\* Rule R-4s taking the range to the following point
RuleR4sForward(vals, i) ==
    /\ i + 1 < Len(vals)
    /\ Abs(At(vals, i + 1) - At(vals, i)) > 4 * std

\* Rule R-4s with a range limit of 3 SD
RuleR4sThree(vals, i) ==
    /\ i > 0
    /\ Abs(At(vals, i) - At(vals, i - 1)) > 3 * std

\* Rule R-4s: i > 0, abs(values[i] - values[i-1]) > 4 * std
RuleR4s(vals, i) ==
    /\ i > 0
    /\ Abs(At(vals, i) - At(vals, i - 1)) > 4 * std

\* Rule 4-1s: i >= 3, the z of values[i-3..i] all > 1 or all < -1
Rule41s(vals, i) ==
    /\ i >= 3
    /\ \/ \A j \in (i - 3)..i : ZGreater(At(vals, j), 1)
       \/ \A j \in (i - 3)..i : ZLess(At(vals, j), -1)

\* Rule 10-x over a window of nine points
Rule10xNine(vals, i) ==
    /\ i >= 8
    /\ \/ \A j \in (i - 8)..i : At(vals, j) > mean
       \/ \A j \in (i - 8)..i : At(vals, j) < mean

\* Rule 10-x: i >= 9, values[i-9..i] all > mean or all < mean
Rule10x(vals, i) ==
    /\ i >= 9
    /\ \/ \A j \in (i - 9)..i : At(vals, j) > mean
       \/ \A j \in (i - 9)..i : At(vals, j) < mean

\* np.diff(values[a:b+1]) all > 0 or all < 0
Monotone(vals, a, b) ==
    \/ \A j \in a..(b - 1) : At(vals, j + 1) - At(vals, j) > 0
    \/ \A j \in a..(b - 1) : At(vals, j + 1) - At(vals, j) < 0

\* the trend rule over eight points: i >= 7, the diffs of values[i-7..i] all
\* > 0 or all < 0
Rule7TEight(vals, i) == i >= 7 /\ Monotone(vals, i - 7, i)

\* Rule 7-T: i >= 6, the diffs of values[i-6..i] all > 0 or all < 0
Rule7T(vals, i) == i >= 6 /\ Monotone(vals, i - 6, i)

\* Rule 8-x: i >= 7, the z of values[i-7..i] all have abs > 1
Rule8x(vals, i) ==
    /\ i >= 7
    /\ \A j \in (i - 7)..i : AbsZGreater(At(vals, j), 1)

\* Rule 6-x: i >= 5, the diffs of values[i-5..i] all > 0 or all < 0
Rule6x(vals, i) == i >= 5 /\ Monotone(vals, i - 5, i)

\* the appends of one iteration of the loop over i, in source order
WestgardAt(vals, i) ==
       (IF Rule13s(vals, i) THEN <<WV(i, "1-3s", "CRITICAL")>> ELSE <<>>)
    \o (IF Rule22s(vals, i) THEN <<WV(i, "2-2s", "CRITICAL")>> ELSE <<>>)
    \o (IF RuleR4s(vals, i) THEN <<WV(i, "R-4s", "CRITICAL")>> ELSE <<>>)
    \o (IF Rule41s(vals, i) THEN <<WV(i, "4-1s", "WARNING")>> ELSE <<>>)
    \o (IF Rule10x(vals, i) THEN <<WV(i, "10-x", "CRITICAL")>> ELSE <<>>)
    \o (IF Rule7T(vals, i) THEN <<WV(i, "7-T", "WARNING")>> ELSE <<>>)
    \o (IF Rule8x(vals, i) THEN <<WV(i, "8-x", "WARNING")>> ELSE <<>>)
    \o (IF Rule6x(vals, i) THEN <<WV(i, "6-x", "WARNING")>> ELSE <<>>)

extended_westgard_rules(vals) ==
    Flatten([k \in 1..Len(vals) |-> WestgardAt(vals, k - 1)])

---------------------------------------------------------------------------
(* cusum_detection *)
(* A running sum is held as the integer  cusum * cusum_k_den * |std|,  so   *)
(* that  max(0, prev + deviation - k)  is exact.                           *)

cusum_k_num == 1   \* self.cusum_k = 0.5 = cusum_k_num / cusum_k_den
cusum_k_den == 2
cusum_h == 4       \* self.cusum_h = 4.0

CusumScale == cusum_k_den * Abs(std)

\* deviation = (values[i] - mean) / std, scaled
CusumDeviation(v) == cusum_k_den * Sign(std) * (v - mean)

\* self.cusum_k, scaled
CusumK == cusum_k_num * Abs(std)

\* cusum_pos[0] = max(0, deviation - k)
CusumPosFirst(v) == Max(0, CusumDeviation(v) - CusumK)

\* cusum_neg[0] = max(0, -deviation - k)
CusumNegFirst(v) == Max(0, (-CusumDeviation(v)) - CusumK)

\* cusum_pos[i] restarted from zero once the previous sum has signalled
CusumPosNextReset(prev, v) ==
    Max(0, (IF prev > cusum_h * CusumScale THEN 0 ELSE prev) + CusumDeviation(v) - CusumK)

\* cusum_pos[i] = max(0, cusum_pos[i-1] + deviation - k)
CusumPosNext(prev, v) == Max(0, prev + CusumDeviation(v) - CusumK)

\* cusum_neg[i] without the floor at zero
CusumNegNextUnclipped(prev, v) == prev - CusumDeviation(v) - CusumK

\* cusum_neg[i] = max(0, cusum_neg[i-1] - deviation - k)
CusumNegNext(prev, v) == Max(0, prev - CusumDeviation(v) - CusumK)

\* the array cusum_pos after the first n iterations
RECURSIVE CusumPos(_, _)
CusumPos(vals, n) ==
    IF n = 0 THEN <<>>
    ELSE IF n = 1 THEN <<CusumPosFirst(At(vals, 0))>>
    ELSE LET p == CusumPos(vals, n - 1)
         IN  Append(p, CusumPosNext(p[n - 1], At(vals, n - 1)))

\* the array cusum_neg after the first n iterations
RECURSIVE CusumNeg(_, _)
CusumNeg(vals, n) ==
    IF n = 0 THEN <<>>
    ELSE IF n = 1 THEN <<CusumNegFirst(At(vals, 0))>>
    ELSE LET p == CusumNeg(vals, n - 1)
         IN  Append(p, CusumNegNext(p[n - 1], At(vals, n - 1)))

\* cusum[i] > self.cusum_h
CusumExceeds(c) == c > cusum_h * CusumScale

\* a violation row whose warning label is spelled 'Warning'
TVMiscased(i, type, severity) ==
    [index |-> i, type |-> type,
     severity |-> IF severity = "WARNING" THEN "Warning" ELSE severity]

TV(i, type, severity) == [index |-> i, type |-> type, severity |-> severity]

cusum_detection(vals) ==
    LET n   == Len(vals)
        pos == CusumPos(vals, n)
        neg == CusumNeg(vals, n)
        at(i) ==
               (IF CusumExceeds(At(pos, i))
                THEN <<TV(i, "CUSUM_HIGH", "CRITICAL")>> ELSE <<>>)
            \o (IF CusumExceeds(At(neg, i))
                THEN <<TV(i, "CUSUM_LOW", "CRITICAL")>> ELSE <<>>)
    IN  [violations |-> Flatten([k \in 1..n |-> at(k - 1)]),
         cusum_pos  |-> pos,
         cusum_neg  |-> neg]

---------------------------------------------------------------------------
(* ewma_detection *)
(* An EWMA value is held exactly as  int + sum_j frac[j] * base^(-j)  with  *)
(* base = ewma_lambda.den and digits 0 .. base-1 (no trailing zero digit): *)
(* its denominator is base^i after i steps, beyond the integer range.      *)

ewma_L_num == 27   \* self.ewma_L = 2.7 = ewma_L_num / ewma_L_den
ewma_L_den == 10

RECURSIVE StripZeros(_)
StripZeros(digs) ==
    IF digs = <<>> THEN <<>>
    ELSE IF digs[Len(digs)] = 0 THEN StripZeros(SubSeq(digs, 1, Len(digs) - 1))
    ELSE digs

\* digs * c in base b: the fraction digits and the carry into the integer part
RECURSIVE MulFrac(_, _, _)
MulFrac(digs, c, b) ==
    IF digs = <<>> THEN [frac |-> <<>>, carry |-> 0]
    ELSE LET rest == MulFrac(Tail(digs), c, b)
             t    == Head(digs) * c + rest.carry
         IN  [frac |-> <<t % b>> \o rest.frac, carry |-> t \div b]

\* ewma[0] = values[0]
EwmaFirst(v) == [int |-> v, frac |-> <<>>]

\* the weights exchanged: ewma[i] = (1 - lambda) * values[i] + lambda * ewma[i-1]
EwmaNextSwapped(prev, v) ==
    LET ln == ewma_lambda.num
        ld == ewma_lambda.den
        m  == MulFrac(prev.frac, ln, ld)
        t  == (ld - ln) * v + ln * prev.int + m.carry
    IN  [int |-> t \div ld, frac |-> StripZeros(<<t % ld>> \o m.frac)]

\* ewma[i] = lambda * values[i] + (1 - lambda) * ewma[i-1]
EwmaNext(prev, v) ==
    LET ln == ewma_lambda.num
        ld == ewma_lambda.den
        m  == MulFrac(prev.frac, ld - ln, ld)
        t  == ln * v + (ld - ln) * prev.int + m.carry
    IN  [int |-> t \div ld, frac |-> StripZeros(<<t % ld>> \o m.frac)]

\* the array ewma[0..n-1], n >= 1
RECURSIVE EwmaArray(_, _)
EwmaArray(vals, n) ==
    IF n = 1 THEN <<EwmaFirst(At(vals, 0))>>
    ELSE LET e == EwmaArray(vals, n - 1)
         IN  Append(e, EwmaNext(e[n - 1], At(vals, n - 1)))

\* digits > the base-b expansion of r/d  (0 <= r < d)
RECURSIVE DigitsGT(_, _, _, _)
DigitsGT(digs, r, d, b) ==
    IF digs = <<>> THEN FALSE
    ELSE LET q == (b * r) \div d
         IN  IF Head(digs) # q THEN Head(digs) > q
             ELSE DigitsGT(Tail(digs), (b * r) % d, d, b)

\* digits < the base-b expansion of r/d  (0 <= r < d)
RECURSIVE DigitsLT(_, _, _, _)
DigitsLT(digs, r, d, b) ==
    IF digs = <<>> THEN r > 0
    ELSE LET q == (b * r) \div d
         IN  IF Head(digs) # q THEN Head(digs) < q
             ELSE DigitsLT(Tail(digs), (b * r) % d, d, b)

\* x > lim.num / lim.den
ExactGT(x, lim) ==
    IF x.int # lim.num \div lim.den THEN x.int > lim.num \div lim.den
    ELSE DigitsGT(x.frac, lim.num % lim.den, lim.den, ewma_lambda.den)

\* x < lim.num / lim.den
ExactLT(x, lim) ==
    IF x.int # lim.num \div lim.den THEN x.int < lim.num \div lim.den
    ELSE DigitsLT(x.frac, lim.num % lim.den, lim.den, ewma_lambda.den)

\* floor of the square root
ISqrt(n) == CHOOSE r \in 0..n : r * r <= n /\ (r + 1) * (r + 1) > n

\* np.sqrt(lambda / (2 - lambda)) as a rational; exact when
\* lambda.num * (2 * lambda.den - lambda.num) is a perfect square
EwmaSqrt ==
    LET d == 2 * ewma_lambda.den - ewma_lambda.num
    IN  [num |-> ISqrt(ewma_lambda.num * d), den |-> d]

\* ucl = mean + L * std * sqrt(lambda / (2 - lambda))
EwmaUcl ==
    [num |-> mean * ewma_L_den * EwmaSqrt.den + ewma_L_num * std * EwmaSqrt.num,
     den |-> ewma_L_den * EwmaSqrt.den]

\* lcl = mean - L * std * sqrt(lambda / (2 - lambda))
EwmaLcl ==
    [num |-> mean * ewma_L_den * EwmaSqrt.den - ewma_L_num * std * EwmaSqrt.num,
     den |-> ewma_L_den * EwmaSqrt.den]

\* ok = FALSE: ewma[0] = values[0] raises IndexError on an empty series
ewma_detection(vals) ==
    LET n == Len(vals)
    IN  IF n = 0
        THEN [ok |-> FALSE, violations |-> <<>>, ewma |-> <<>>,
              ucl |-> EwmaUcl, lcl |-> EwmaLcl]
        ELSE LET e == EwmaArray(vals, n)
                 at(i) ==
                        (IF ExactGT(At(e, i), EwmaUcl)
                         THEN <<TV(i, "EWMA_HIGH", "WARNING")>> ELSE <<>>)
                     \o (IF ExactLT(At(e, i), EwmaLcl)
                         THEN <<TV(i, "EWMA_LOW", "WARNING")>> ELSE <<>>)
             IN  [ok |-> TRUE,
                  violations |-> Flatten([k \in 1..(n - 1) |-> at(k)]),
                  ewma |-> e, ucl |-> EwmaUcl, lcl |-> EwmaLcl]

---------------------------------------------------------------------------
(* anomaly_detection_zscore *)

\* insertion of x into an ascending sequence
RECURSIVE Insert(_, _)
Insert(x, sorted) ==
    IF sorted = <<>> THEN <<x>>
    ELSE IF x <= Head(sorted) THEN <<x>> \o sorted
    ELSE <<Head(sorted)>> \o Insert(x, Tail(sorted))

\* ascending sort
RECURSIVE Sorted(_)
Sorted(s) == IF s = <<>> THEN <<>> ELSE Insert(Head(s), Sorted(Tail(s)))

\* 2 * np.median(s) for a non-empty s: the middle element twice, or the sum
\* of the two middle elements
Median2(s) ==
    LET t == Sorted(s)
        n == Len(s)
    IN  IF n % 2 = 1 THEN 2 * t[(n + 1) \div 2]
        ELSE t[n \div 2] + t[n \div 2 + 1]

\* 2 * np.abs(values - median), element by element
AbsDev2(vals) == [k \in 1..Len(vals) |-> Abs(2 * vals[k] - Median2(vals))]

\* 4 * mad, where mad = np.median(np.abs(values - median))
Mad4(vals) == Median2(AbsDev2(vals))

\* 0.6745 = ModZ_num / ModZ_den
ModZ_num == 1349
ModZ_den == 2000

\* abs(0.6745 * (values[i] - median) / mad) > t10 / 10, for mad > 0
ModZExceeds(vals, i, t10) ==
    ModZ_num * 2 * 10 * AbsDev2(vals)[i + 1] > t10 * ModZ_den * Mad4(vals)

\* mad > 0; an empty series has median nan, and nan > 0 is False
MadPositive(vals) == Len(vals) > 0 /\ Mad4(vals) > 0

anomaly_threshold == 35   \* threshold=3.5, in tenths
anomaly_critical  == 45   \* 4.5, in tenths

\* ok = FALSE: with mad > 0 false the source evaluates np.zeros_len(values),
\* which numpy does not have, and the call raises AttributeError
anomaly_detection_zscore(vals, thr) ==
    IF ~MadPositive(vals)
    THEN [ok |-> FALSE, violations |-> <<>>]
    ELSE LET at(i) ==
                 IF ModZExceeds(vals, i, thr)
                 THEN <<TV(i, "STATISTICAL_ANOMALY",
                           IF ModZExceeds(vals, i, anomaly_critical)
                           THEN "CRITICAL" ELSE "WARNING")>>
                 ELSE <<>>
         IN  [ok |-> TRUE,
              violations |-> Flatten([k \in 1..Len(vals) |-> at(k - 1)])]

---------------------------------------------------------------------------
(* trend_detection *)

trend_window == 10   \* window=10

\* sum of f[0] .. f[n-1]
RECURSIVE SumTo(_, _)
SumTo(f, n) == IF n = 0 THEN 0 ELSE f[n - 1] + SumTo(f, n - 1)

\* n * sum(x*y) - sum(x) * sum(y) for x = 0..w-1, y = wd: the numerator of the
\* least-squares slope and of r
RegA(wd, w) ==
    w * SumTo([x \in 0..(w - 1) |-> x * At(wd, x)], w)
      - SumTo([x \in 0..(w - 1) |-> x], w) * SumTo([x \in 0..(w - 1) |-> At(wd, x)], w)

\* n * sum(x*x) - sum(x)^2: the denominator of the slope
RegB(w) ==
    w * SumTo([x \in 0..(w - 1) |-> x * x], w)
      - SumTo([x \in 0..(w - 1) |-> x], w) * SumTo([x \in 0..(w - 1) |-> x], w)

\* n * sum(y*y) - sum(y)^2
RegC(wd, w) ==
    w * SumTo([x \in 0..(w - 1) |-> At(wd, x) * At(wd, x)], w)
      - SumTo([x \in 0..(w - 1) |-> At(wd, x)], w) * SumTo([x \in 0..(w - 1) |-> At(wd, x)], w)

\* The two-sided p-value of linregress is below 0.05 exactly when
\* t^2 = df * r^2 / (1 - r^2) exceeds the squared 97.5% quantile of Student's t
\* with df = window - 2 = 8 degrees of freedom (2.306004^2), that is when
\* r^2 > 0.3993...; TCrit_num / TCrit_den is that bound.  r is 0 when y is
\* constant.
TCrit_num == 113
TCrit_den == 283

\* p_value < 0.05 for the fit of window wd
Significant(wd, w) ==
    LET a == RegA(wd, w)
        c == RegC(wd, w)
    IN  /\ c # 0
        /\ a # 0
        /\ FracGT(a * a, RegB(w) * c, TCrit_num, TCrit_den)

\* abs(change) > 1.5 with change = slope * window / std
ChangeExceeds(wd, w) == 2 * Abs(RegA(wd, w)) * w > 3 * RegB(w) * Abs(std)

\* abs(change) < 2.5
ChangeBelowCritical(wd, w) == 2 * Abs(RegA(wd, w)) * w < 5 * RegB(w) * Abs(std)

\* the append of iteration i (window <= i < n) over values[i-window:i]
TrendAt(vals, i, w) ==
    LET wd == Slice(vals, i - w, i)
    IN  IF Significant(wd, w) /\ ChangeExceeds(wd, w)
        THEN <<TV(i,
                  IF RegA(wd, w) > 0 THEN "TREND_UPWARD" ELSE "TREND_DOWNWARD",
                  IF ChangeBelowCritical(wd, w) THEN "WARNING" ELSE "CRITICAL")>>
        ELSE <<>>

trend_detection(vals, w) ==
    Flatten([k \in 1..(Len(vals) - w) |-> TrendAt(vals, k + w - 1, w)])

---------------------------------------------------------------------------
(* run_analysis *)

run_start == 7   \* for i in range(7, n)

\* above_7: the number of values[i-6..i] above the mean
Above7(vals, i) == Cardinality({j \in (i - 6)..i : At(vals, j) > mean})

\* the run rule with a bare majority: above_7 >= 4 or above_7 <= 3
RunRule67Majority(vals, i) == i >= 6 /\ (Above7(vals, i) >= 4 \/ Above7(vals, i) <= 3)

\* above_7 >= 6 or above_7 <= 1
RunRule67(vals, i) == i >= 6 /\ (Above7(vals, i) >= 6 \/ Above7(vals, i) <= 1)

\* sign_changes: over diffs = np.diff(values[i-7..i]), the number of j with
\* np.sign(diffs[j]) != np.sign(diffs[j+1])
SignChanges(vals, i) ==
    Cardinality({j \in (i - 7)..(i - 2) :
        Sign(At(vals, j + 1) - At(vals, j)) # Sign(At(vals, j + 2) - At(vals, j + 1))})

\* sign_changes >= 6
Zigzag(vals, i) == i >= 7 /\ SignChanges(vals, i) >= 6

RunAt(vals, i) ==
       (IF RunRule67(vals, i) THEN <<TV(i, "RUN_RULE_6/7", "WARNING")>> ELSE <<>>)
    \o (IF Zigzag(vals, i) THEN <<TV(i, "ZIGZAG_PATTERN", "WARNING")>> ELSE <<>>)

run_analysis(vals) ==
    Flatten([k \in 1..(Len(vals) - run_start) |-> RunAt(vals, k + run_start - 1)])

---------------------------------------------------------------------------
(* comprehensive_analysis: concat, sort, summary *)

\* westgard.assign(method=m) as a row of the concatenated frame: the frame
\* has both a 'rule' and a 'type' column, filled with NaN where a detector
\* has no such column
WestgardRow(v, m) ==
    [index |-> v.index, rule |-> v.rule, type |-> "NaN",
     severity |-> v.severity, method |-> m]

\* violations.assign(method=m) of the other detectors, as a row
TypeRow(v, m) ==
    [index |-> v.index, rule |-> "NaN", type |-> v.type,
     severity |-> v.severity, method |-> m]

\* the concatenation without the frame of run_analysis
ConcatWithoutRuns(w, c, e, a, t, r) ==
       [k \in 1..Len(w) |-> WestgardRow(w[k], "Westgard")]
    \o [k \in 1..Len(c) |-> TypeRow(c[k], "CUSUM")]
    \o [k \in 1..Len(e) |-> TypeRow(e[k], "EWMA")]
    \o [k \in 1..Len(a) |-> TypeRow(a[k], "Anomaly")]
    \o [k \in 1..Len(t) |-> TypeRow(t[k], "Trend")]

\* pd.concat([...], ignore_index=True)
Concat(w, c, e, a, t, r) ==
       [k \in 1..Len(w) |-> WestgardRow(w[k], "Westgard")]
    \o [k \in 1..Len(c) |-> TypeRow(c[k], "CUSUM")]
    \o [k \in 1..Len(e) |-> TypeRow(e[k], "EWMA")]
    \o [k \in 1..Len(a) |-> TypeRow(a[k], "Anomaly")]
    \o [k \in 1..Len(t) |-> TypeRow(t[k], "Trend")]
    \o [k \in 1..Len(r) |-> TypeRow(r[k], "Run")]

\* the rows in ascending index order, rows of equal index in their given
\* order: row k goes to the position that counts the rows of smaller index
\* and the rows of equal index up to k
StableSort(rows) ==
    LET n   == Len(rows)
        pos == [k \in 1..n |->
                   Cardinality({j \in 1..n :
                       \/ rows[j].index < rows[k].index
                       \/ rows[j].index = rows[k].index /\ j <= k})]
    IN  [p \in 1..n |-> rows[CHOOSE k \in 1..n : pos[k] = p]]

\* rows with the rows at positions k and k+1 exchanged
SwapAt(rows, k) ==
    [j \in 1..Len(rows) |->
        IF j = k THEN rows[k + 1] ELSE IF j = k + 1 THEN rows[k] ELSE rows[j]]

\* the concatenated frame returned as it is
SortValuesUnsorted(rows) == {rows}

\* sort_values('index') uses the default kind='quicksort', which orders rows
\* of equal index as the numpy build pleases.  The outcomes modelled are the
\* order-preserving one and every one that exchanges one adjacent pair of
\* rows of equal index.
SortValues(rows) ==
    LET st == StableSort(rows)
    IN  {st} \cup {SwapAt(st, k) : k \in {j \in 1..(Len(st) - 1) :
                                           st[j].index = st[j + 1].index}}

\* len(violations[violations['severity'] == sev])
CountSeverity(rows, sev) == Cardinality({k \in 1..Len(rows) : rows[k].severity = sev})

\* violations.groupby('method').size().to_dict()
MethodCounts(rows) ==
    [m \in {rows[k].method : k \in 1..Len(rows)} |->
        Cardinality({k \in 1..Len(rows) : rows[k].method = m})]

\* _generate_summary with the warning branch tested before the critical one
generate_summaryWarningFirst(rows) ==
    IF Len(rows) = 0
    THEN [total_violations |-> 0, critical |-> 0, warning |-> 0,
          methods |-> <<>>, message |-> "IN_CONTROL"]
    ELSE LET crit == CountSeverity(rows, "CRITICAL")
             warn == CountSeverity(rows, "WARNING")
         IN  [total_violations |-> Len(rows), critical |-> crit, warning |-> warn,
              methods |-> MethodCounts(rows),
              message |-> IF warn > 0 THEN "NEEDS_REVIEW"
                          ELSE IF crit > 0 THEN "REJECT"
                          ELSE "ACCEPTABLE"]

\* _generate_summary; message names the branch taken:
\*   IN_CONTROL    "No violations detected - QC is in control"
\*   REJECT        "CRITICAL: n critical violations - REJECT run"
\*   NEEDS_REVIEW  "WARNING: n warnings - Investigate"
\*   ACCEPTABLE    "QC is acceptable"
generate_summary(rows) ==
    IF Len(rows) = 0
    THEN [total_violations |-> 0, critical |-> 0, warning |-> 0,
          methods |-> <<>>, message |-> "IN_CONTROL"]
    ELSE LET crit == CountSeverity(rows, "CRITICAL")
             warn == CountSeverity(rows, "WARNING")
         IN  [total_violations |-> Len(rows), critical |-> crit, warning |-> warn,
              methods |-> MethodCounts(rows),
              message |-> IF crit > 0 THEN "REJECT"
                          ELSE IF warn > 0 THEN "NEEDS_REVIEW"
                          ELSE "ACCEPTABLE"]

---------------------------------------------------------------------------
(* comprehensive_analysis: the optional save block *)

\* the steps of the save block that can raise: os.makedirs and the four
\* to_csv calls
SaveSteps ==
    {"makedirs", "cusum_analysis.csv", "ewma_analysis.csv",
     "cusum_violations.csv", "ewma_violations.csv"}

\* the files the block tries to write: nothing without save_dir, the two
\* analysis files always, a violations file when its frame is non-empty
SaveAttempts(dir, c, e) ==
    IF dir = "None" THEN {}
    ELSE {"cusum_analysis.csv", "ewma_analysis.csv"}
            \cup (IF Len(c.violations) > 0 THEN {"cusum_violations.csv"} ELSE {})
            \cup (IF Len(e.violations) > 0 THEN {"ewma_violations.csv"} ELSE {})

\* the save block with no try/except: the first failing step leaves
\* comprehensive_analysis
SaveBlockUnguarded(dir, c, e, failing) ==
    [files  |-> SaveAttempts(dir, c, e) \ failing,
     raised |-> dir # "None" /\ failing \cap (SaveAttempts(dir, c, e) \cup {"makedirs"}) # {}]

\* the save block when the steps in failing raise: each step sits in its
\* own try/except Exception: pass, so control always reaches the return
SaveBlock(dir, c, e, failing) ==
    [files |-> SaveAttempts(dir, c, e) \ failing, raised |-> FALSE]

---------------------------------------------------------------------------
(* The analysed inputs *)

\* one call <<mean, std, ewma_lambda, save_dir>>: ewma_lambda is 0.2 as
\* constructed, or set to the degenerate weight 1; save_dir is absent or
\* names a directory
ParamSet ==
    {<<0, 10, [num |-> 1, den |-> 5], "None">>,
     <<3, 20, [num |-> 1, den |-> 5], "results">>,
     <<3, 10, [num |-> 1, den |-> 1], "None">>}

\* calls with a standard deviation that is not positive
InvalidParamSet ==
    {<<0, -10, [num |-> 1, den |-> 5], "None">>,
     <<3, -20, [num |-> 1, den |-> 5], "None">>}

\* thresholds handed to anomaly_detection_zscore, in tenths
ThresholdSet == {20, 35, 100}

\* offsets from the mean, in tenths of std
Levels == {-31, -30, 0, 21, 30, 31}

ConstLevels == {-35, -11, -1, 0, 1, 11, 20, 31}

SpikeLevels == {35, -31}

AltLevels == {1, 11, 25}

AboveLevels == {1, 5, 9}

TailLevels == {-5, 0, 5}

\* ramp start and slope, in units
RampStarts == {-10, 0}

RampSlopes == {-5, -3, -2, 2, 3, 5}

ShortOffsets == UNION {[1..n -> Levels] : n \in 0..ShortLen}

ConstOffsets == {[k \in 1..n |-> l] : n \in 0..MaxLen, l \in ConstLevels}

SpikeOffsets ==
    {[k \in 1..n |-> IF k = j THEN s ELSE 0] :
        n \in 1..MaxLen, j \in 1..MaxLen, s \in SpikeLevels}

AltOffsets ==
    {[k \in 1..n |-> IF k % 2 = 1 THEN d ELSE -d] :
        n \in 0..AltLen, d \in AltLevels \cup {-l : l \in AltLevels}}

AboveOffsets ==
    {[k \in 1..(10 + t) |-> IF k > 10 THEN c ELSE IF k % 2 = 1 THEN a ELSE b] :
        t \in 0..AboveTail, a \in AboveLevels, b \in AboveLevels, c \in TailLevels}

Offsets == ShortOffsets \cup ConstOffsets \cup SpikeOffsets \cup AltOffsets
              \cup AboveOffsets

\* the series mean + o * std / 10
FromOffsets(o, m, sd) == [k \in 1..Len(o) |-> m + o[k] * (sd \div 10)]

\* the series mean + a + s * i
Ramps(m) ==
    {[k \in 1..n |-> m + a + s * (k - 1)] :
        n \in 0..RampLen, a \in RampStarts, s \in RampSlopes}

\* a ramp whose last point repeats the one before it
StalledRamps(m) ==
    {[k \in 1..n |-> m + a + s * (IF k = n THEN k - 2 ELSE k - 1)] :
        n \in 8..RampLen, a \in RampStarts, s \in RampSlopes}

SeriesSet(m, sd) ==
    {FromOffsets(o, m, sd) : o \in Offsets} \cup Ramps(m) \cup StalledRamps(m)

---------------------------------------------------------------------------
(* The streaming web monitor (src/realtime_qc_monitor.py): module-level    *)
(* state shared by the data_generator thread and the Dash callbacks.       *)
(* A measurement is an integer number of units: 0.005 mg/dL for            *)
(* creatinine, 0.05 mg/dL for urea.  datetime.now() is the number of       *)
(* measurements generated so far.                                          *)

MaxTicks == 3     \* iterations of the data_generator loop
MaxCalls == 1     \* callbacks served
MaxOutliers == 1  \* generated measurements that are off the mean

\* for analyte in ['creatinine', 'urea']
Analytes == <<"creatinine", "urea">>

AnalyteSet == {"creatinine", "urea"}

\* qc.parameters: mean 1.0, std 0.05 and mean 25.0, std 1.5
parameters ==
    [creatinine |-> [mean |-> 200, std |-> 10],
     urea       |-> [mean |-> 500, std |-> 30]]

max_points == 100

max_violations == 50

\* deque(maxlen=maxlen).append(x)
DequeAppend(d, x, maxlen) ==
    IF Len(d) < maxlen THEN Append(d, x) ELSE Append(Tail(d), x)

EmptyStorage == [times |-> <<>>, values |-> <<>>, violations |-> <<>>]

\* {'mean': 0, 'sd': 0, 'cv': 0, 'bias': 0, 'sigma': 0}; a statistics dict
\* is held as its mean and variance (sd, cv, bias and sigma are functions
\* of these and of qc.parameters) and n, read as 0 where the key is absent
ZeroStats ==
    [mean |-> [num |-> 0, den |-> 1], var |-> [num |-> 0, den |-> 1], n |-> 0]

\* {'status': 'OK', 'message': '', 'count': 0}
OkFlags == [status |-> "OK", message |-> "", count |-> 0]

\* the value None of check_westgard_violation
NoViolation ==
    [time |-> 0, value |-> 0, rule |-> "None", severity |-> "None", message |-> ""]

\* the data_generator thread at the top of its loop
ProducerStart ==
    [pc |-> "store_time", analyte |-> 1, new_value |-> 0, current_time |-> 0,
     violation |-> NoViolation, values |-> <<>>]

\* no callback is being served
NoCallback ==
    [name |-> "none", pc |-> "none", analyte |-> "none", times |-> <<>>,
     values |-> <<>>, acc |-> <<>>]

NoOutput == [callback |-> "none"]

\* the module as imported, data_generator started
StreamInit ==
    /\ data_storage = [a \in AnalyteSet |-> EmptyStorage]
    /\ stats_storage = [a \in AnalyteSet |-> ZeroStats]
    /\ alert_flags = [a \in AnalyteSet |-> OkFlags]
    /\ producer = ProducerStart
    /\ callback = NoCallback
    /\ out = NoOutput
    /\ now = 0
    /\ n_calls = 0
    /\ measured = {}

\* offsets of generated measurements from the analyte's mean, in tenths of
\* its std: np.random.normal can return any value in every scenario
StreamLevels == {0, 25, 35}

Measurements(a) ==
    {parameters[a].mean + o * (parameters[a].std \div 10) : o \in StreamLevels}

\* the measurements generated so far that are off their analyte's mean
Outliers == {m \in measured : m[3] # parameters[m[1]].mean}

\* the dict check_westgard_violation returns for a violated rule
Violation(t, v, rule, severity, message) ==
    [time |-> t, value |-> v, rule |-> rule, severity |-> severity,
     message |-> message]

\* check_westgard_violation(analyte, new_value) with vals the copy it takes
\* of the values buffer and t the time it reads
check_westgard_violation(a, new_value, vals, t) ==
    LET m  == parameters[a].mean
        sd == parameters[a].std
        n  == Len(vals)
        last(k) == vals[n - k + 1]
        four == <<new_value, last(3), last(2), last(1)>>
        ten  == <<new_value>> \o SubSeq(vals, n - 8, n)
    IN  IF n < 2 THEN NoViolation
        ELSE IF Abs(new_value - m) > 3 * sd
        THEN Violation(t, new_value, "1-3s", "CRITICAL",
                       "One control exceeds +-3 SD")
        ELSE IF /\ n >= 1
                /\ Abs(new_value - m) > 2 * sd
                /\ Abs(last(1) - m) > 2 * sd
                /\ Sign(new_value - m) = Sign(last(1) - m)
        THEN Violation(t, new_value, "2-2s", "CRITICAL",
                       "Two consecutive controls exceed +-2 SD")
        ELSE IF n >= 1 /\ Abs(new_value - last(1)) > 4 * sd
        THEN Violation(t, new_value, "R-4s", "CRITICAL", "Range exceeds 4 SD")
        ELSE IF /\ n >= 3
                /\ \/ \A k \in 1..4 : four[k] - m > sd
                   \/ \A k \in 1..4 : four[k] - m < -sd
        THEN Violation(t, new_value, "4-1s", "WARNING",
                       "Four consecutive controls exceed +-1 SD")
        ELSE IF /\ n >= 9
                /\ \/ \A k \in 1..10 : ten[k] > m
                   \/ \A k \in 1..10 : ten[k] < m
        THEN Violation(t, new_value, "10-x", "CRITICAL",
                       "10 consecutive controls on same side of mean")
        ELSE NoViolation

\* sum of a sequence of integers
RECURSIVE SeqSum(_)
SeqSum(s) == IF s = <<>> THEN 0 ELSE Head(s) + SeqSum(Tail(s))

\* the dict update_statistics stores for a copy vals of the values buffer,
\* len(vals) >= 3: np.mean and the ddof=1 variance
Statistics(vals) ==
    LET n  == Len(vals)
        s  == SeqSum(vals)
        ss == SeqSum([k \in 1..n |-> vals[k] * vals[k]])
    IN  [mean |-> [num |-> s, den |-> n],
         var  |-> [num |-> n * ss - s * s, den |-> n * (n - 1)],
         n    |-> n]

---------------------------------------------------------------------------
(* State machine of one comprehensive_analysis call *)

NoCusum == [violations |-> <<>>, cusum_pos |-> <<>>, cusum_neg |-> <<>>]

NoEwma == [ok |-> FALSE, violations |-> <<>>, ewma |-> <<>>,
           ucl |-> [num |-> 0, den |-> 1], lcl |-> [num |-> 0, den |-> 1]]

NoAnomalies == [ok |-> FALSE, violations |-> <<>>]

NoSummary == [total_violations |-> 0, critical |-> 0, warning |-> 0,
              methods |-> <<>>, message |-> "NONE"]

\* __init__ followed by the entry into comprehensive_analysis(values)
\* the state at the entry into comprehensive_analysis for a call in calls
Entry(calls) ==
    /\ \E p \in calls :
          mean = p[1] /\ std = p[2] /\ ewma_lambda = p[3] /\ save_dir = p[4]
    /\ values \in SeriesSet(mean, std)
    /\ threshold = anomaly_threshold
    /\ pc = "westgard"
    /\ westgard = <<>>
    /\ cusum_result = NoCusum
    /\ ewma_result = NoEwma
    /\ anomalies = NoAnomalies
    /\ trends = <<>>
    /\ runs = <<>>
    /\ all_violations = <<>>
    /\ summary = NoSummary
    /\ files = {}
    /\ StreamInit

Init == Entry(ParamSet)

\* westgard = self.extended_westgard_rules(values)
Westgard ==
    /\ pc = "westgard"
    /\ westgard' = extended_westgard_rules(values)
    /\ pc' = "cusum"
    /\ UNCHANGED <<mean, std, ewma_lambda, values, threshold, cusum_result, ewma_result,
                   anomalies, trends, runs, all_violations, summary>>
    /\ UNCHANGED <<save_dir, files>>
    /\ UNCHANGED streamVars

\* cusum_result = self.cusum_detection(values)
Cusum ==
    /\ pc = "cusum"
    /\ cusum_result' = cusum_detection(values)
    /\ pc' = "ewma"
    /\ UNCHANGED <<mean, std, ewma_lambda, values, threshold, westgard, ewma_result,
                   anomalies, trends, runs, all_violations, summary>>
    /\ UNCHANGED <<save_dir, files>>
    /\ UNCHANGED streamVars

\* ewma_result = self.ewma_detection(values)
Ewma ==
    /\ pc = "ewma"
    /\ ewma_detection(values).ok
    /\ ewma_result' = ewma_detection(values)
    /\ pc' = "anomaly"
    /\ UNCHANGED <<mean, std, ewma_lambda, values, threshold, westgard, cusum_result,
                   anomalies, trends, runs, all_violations, summary>>
    /\ UNCHANGED <<save_dir, files>>
    /\ UNCHANGED streamVars

\* ewma_detection raises; the exception leaves comprehensive_analysis
EwmaRaises ==
    /\ pc = "ewma"
    /\ ~ewma_detection(values).ok
    /\ pc' = "raised"
    /\ UNCHANGED <<mean, std, ewma_lambda, values, threshold, westgard, cusum_result,
                   ewma_result, anomalies, trends, runs, all_violations, summary>>
    /\ UNCHANGED <<save_dir, files>>
    /\ UNCHANGED streamVars

\* anomalies = self.anomaly_detection_zscore(values)
Anomaly ==
    /\ pc = "anomaly"
    /\ anomaly_detection_zscore(values, threshold).ok
    /\ anomalies' = anomaly_detection_zscore(values, threshold)
    /\ pc' = "trend"
    /\ UNCHANGED <<mean, std, ewma_lambda, values, threshold, westgard, cusum_result,
                   ewma_result, trends, runs, all_violations, summary>>
    /\ UNCHANGED <<save_dir, files>>
    /\ UNCHANGED streamVars

\* anomaly_detection_zscore raises; the exception leaves comprehensive_analysis
AnomalyRaises ==
    /\ pc = "anomaly"
    /\ ~anomaly_detection_zscore(values, threshold).ok
    /\ pc' = "raised"
    /\ UNCHANGED <<mean, std, ewma_lambda, values, threshold, westgard, cusum_result,
                   ewma_result, anomalies, trends, runs, all_violations, summary>>
    /\ UNCHANGED <<save_dir, files>>
    /\ UNCHANGED streamVars

\* trends = self.trend_detection(values)
Trend ==
    /\ pc = "trend"
    /\ trends' = trend_detection(values, trend_window)
    /\ pc' = "run"
    /\ UNCHANGED <<mean, std, ewma_lambda, values, threshold, westgard, cusum_result,
                   ewma_result, anomalies, runs, all_violations, summary>>
    /\ UNCHANGED <<save_dir, files>>
    /\ UNCHANGED streamVars

\* runs = self.run_analysis(values)
Run ==
    /\ pc = "run"
    /\ runs' = run_analysis(values)
    /\ pc' = "merge"
    /\ UNCHANGED <<mean, std, ewma_lambda, values, threshold, westgard, cusum_result,
                   ewma_result, anomalies, trends, all_violations, summary>>
    /\ UNCHANGED <<save_dir, files>>
    /\ UNCHANGED streamVars

\* all_violations = pd.concat([...]); sorted by index when non-empty
Merge ==
    /\ pc = "merge"
    /\ all_violations' \in SortValues(Concat(westgard, cusum_result.violations,
                                             ewma_result.violations,
                                             anomalies.violations, trends, runs))
    /\ pc' = "merged"
    /\ UNCHANGED <<mean, std, ewma_lambda, values, threshold, westgard, cusum_result,
                   ewma_result, anomalies, trends, runs, summary>>
    /\ UNCHANGED <<save_dir, files>>
    /\ UNCHANGED streamVars

\* the save block, then
\* return {..., 'summary': self._generate_summary(all_violations)}
Return ==
    /\ pc = "merged"
    /\ \E failing \in SUBSET SaveSteps :
          LET saved == SaveBlock(save_dir, cusum_result, ewma_result, failing)
          IN  /\ files' = saved.files
              /\ pc' = IF saved.raised THEN "raised" ELSE "done"
              /\ summary' = IF saved.raised THEN summary
                            ELSE generate_summary(all_violations)
    /\ UNCHANGED <<mean, std, ewma_lambda, values, threshold, westgard, cusum_result,
                   ewma_result, anomalies, trends, runs, all_violations, save_dir>>
    /\ UNCHANGED streamVars

Next ==
    \/ Westgard
    \/ Cusum
    \/ Ewma
    \/ EwmaRaises
    \/ Anomaly
    \/ AnomalyRaises
    \/ Trend
    \/ Run
    \/ Merge
    \/ Return

Spec == Init /\ [][Next]_vars

\* the same call on a detector constructed with std < 0: __init__ stores
\* std unchecked and the detectors divide by it
InitInvalidStd == Entry(InvalidParamSet)

SpecInvalidStd == InitInvalidStd /\ [][Next]_vars

---------------------------------------------------------------------------
(* A single detector called on its own: each detector is a public method   *)
(* of AdvancedFaultDetector and is applied here to every input, whatever   *)
(* the other detectors do with it.                                         *)

InitDetector ==
    /\ \E p \in ParamSet : mean = p[1] /\ std = p[2] /\ ewma_lambda = p[3]
    /\ save_dir = "None"
    /\ files = {}
    /\ StreamInit
    /\ values \in SeriesSet(mean, std)
    /\ threshold = anomaly_threshold
    /\ pc = "call"
    /\ westgard = <<>>
    /\ cusum_result = NoCusum
    /\ ewma_result = NoEwma
    /\ anomalies = NoAnomalies
    /\ trends = <<>>
    /\ runs = <<>>
    /\ all_violations = <<>>
    /\ summary = NoSummary

\* detector.extended_westgard_rules(values)
CallWestgard ==
    /\ pc = "call"
    /\ westgard' = extended_westgard_rules(values)
    /\ pc' = "westgard_returned"
    /\ UNCHANGED <<mean, std, ewma_lambda, values, threshold, cusum_result,
                   ewma_result, anomalies, trends, runs, all_violations, summary>>
    /\ UNCHANGED <<save_dir, files>>
    /\ UNCHANGED streamVars

\* detector.cusum_detection(values)
CallCusum ==
    /\ pc = "call"
    /\ cusum_result' = cusum_detection(values)
    /\ pc' = "cusum_returned"
    /\ UNCHANGED <<mean, std, ewma_lambda, values, threshold, westgard,
                   ewma_result, anomalies, trends, runs, all_violations, summary>>
    /\ UNCHANGED <<save_dir, files>>
    /\ UNCHANGED streamVars

\* detector.ewma_detection(values)
CallEwma ==
    /\ pc = "call"
    /\ ewma_result' = ewma_detection(values)
    /\ pc' = IF ewma_detection(values).ok THEN "ewma_returned" ELSE "ewma_raised"
    /\ UNCHANGED <<mean, std, ewma_lambda, values, threshold, westgard,
                   cusum_result, anomalies, trends, runs, all_violations, summary>>
    /\ UNCHANGED <<save_dir, files>>
    /\ UNCHANGED streamVars

\* detector.anomaly_detection_zscore(values, threshold=t)
CallAnomaly ==
    /\ pc = "call"
    /\ \E t \in ThresholdSet :
         /\ threshold' = t
         /\ anomalies' = anomaly_detection_zscore(values, t)
         /\ pc' = IF anomaly_detection_zscore(values, t).ok
                  THEN "anomaly_returned" ELSE "anomaly_raised"
    /\ UNCHANGED <<mean, std, ewma_lambda, values, westgard, cusum_result,
                   ewma_result, trends, runs, all_violations, summary>>
    /\ UNCHANGED <<save_dir, files>>
    /\ UNCHANGED streamVars

\* detector.trend_detection(values)
CallTrend ==
    /\ pc = "call"
    /\ trends' = trend_detection(values, trend_window)
    /\ pc' = "trend_returned"
    /\ UNCHANGED <<mean, std, ewma_lambda, values, threshold, westgard,
                   cusum_result, ewma_result, anomalies, runs, all_violations,
                   summary>>
    /\ UNCHANGED <<save_dir, files>>
    /\ UNCHANGED streamVars

\* detector.run_analysis(values)
CallRun ==
    /\ pc = "call"
    /\ runs' = run_analysis(values)
    /\ pc' = "run_returned"
    /\ UNCHANGED <<mean, std, ewma_lambda, values, threshold, westgard,
                   cusum_result, ewma_result, anomalies, trends, all_violations,
                   summary>>
    /\ UNCHANGED <<save_dir, files>>
    /\ UNCHANGED streamVars

NextDetector ==
    \/ CallWestgard
    \/ CallCusum
    \/ CallEwma
    \/ CallAnomaly
    \/ CallTrend
    \/ CallRun

SpecDetector == InitDetector /\ [][NextDetector]_vars

\* the detector's result is in its variable
WestgardReturned ==
    pc \in {"westgard_returned", "cusum", "ewma", "anomaly", "trend", "run",
            "merge", "merged", "done", "raised"}

CusumReturned ==
    pc \in {"cusum_returned", "ewma", "anomaly", "trend", "run", "merge",
            "merged", "done", "raised"}

EwmaReturned ==
    pc \in {"ewma_returned", "anomaly", "trend", "run", "merge", "merged", "done"}
        \/ (pc = "raised" /\ ewma_result.ok)

AnomalyReturned ==
    pc \in {"anomaly_returned", "trend", "run", "merge", "merged", "done"}

TrendReturned == pc \in {"trend_returned", "run", "merge", "merged", "done"}

RunReturned == pc \in {"run_returned", "merge", "merged", "done"}

---------------------------------------------------------------------------
(* The data_generator thread.  One action is one statement that touches    *)
(* the shared state, together with the thread-local computation before it;  *)
(* the threads interleave between such statements.                          *)

\* the module as imported and its thread started; the batch detector, idle
\* here, holds the parameters of creatinine
InitStream ==
    /\ mean = parameters.creatinine.mean
    /\ std = parameters.creatinine.std
    /\ ewma_lambda = [num |-> 1, den |-> 5]
    /\ values = <<>>
    /\ threshold = anomaly_threshold
    /\ pc = "idle"
    /\ westgard = <<>>
    /\ cusum_result = NoCusum
    /\ ewma_result = NoEwma
    /\ anomalies = NoAnomalies
    /\ trends = <<>>
    /\ runs = <<>>
    /\ all_violations = <<>>
    /\ summary = NoSummary
    /\ save_dir = "None"
    /\ files = {}
    /\ StreamInit

\* the analyte of the current iteration of the for loop
Analyte == Analytes[producer.analyte]

\* the thread after the last statement of an iteration: on to the next
\* analyte, or to time.sleep(2)
NextIteration ==
    IF producer.analyte < Len(Analytes)
    THEN [ProducerStart EXCEPT !.analyte = producer.analyte + 1]
    ELSE [ProducerStart EXCEPT !.pc = "sleep"]

\* new_value = generate_new_measurement(...); current_time = datetime.now();
\* data_storage[analyte]['times'].append(current_time)
StoreTime ==
    /\ producer.pc = "store_time"
    /\ now < MaxTicks * Len(Analytes)
    /\ \E v \in Measurements(Analyte) :
         /\ v # parameters[Analyte].mean => Cardinality(Outliers) < MaxOutliers
         /\ producer' = [producer EXCEPT !.pc = "store_value", !.new_value = v,
                                         !.current_time = now + 1]
         /\ measured' = measured \cup {<<Analyte, now + 1, v>>}
    /\ now' = now + 1
    /\ data_storage' = [data_storage EXCEPT
                           ![Analyte].times = DequeAppend(@, now + 1, max_points)]
    /\ UNCHANGED <<stats_storage, alert_flags, callback, out, n_calls>>
    /\ UNCHANGED batchVars

\* data_storage[analyte]['values'].append(new_value)
StoreValue ==
    /\ producer.pc = "store_value"
    /\ data_storage' = [data_storage EXCEPT
                           ![Analyte].values =
                               DequeAppend(@, producer.new_value, max_points)]
    /\ producer' = [producer EXCEPT !.pc = "check"]
    /\ UNCHANGED <<stats_storage, alert_flags, callback, out, now, n_calls, measured>>
    /\ UNCHANGED batchVars

\* violation = check_westgard_violation(analyte, new_value); if violation:
Check ==
    /\ producer.pc = "check"
    /\ LET violation == check_westgard_violation(Analyte, producer.new_value,
                                                 data_storage[Analyte].values, now)
       IN  producer' = [producer EXCEPT
                           !.violation = violation,
                           !.pc = IF violation.rule # "None" THEN "log"
                                  ELSE "test_count"]
    /\ UNCHANGED <<data_storage, stats_storage, alert_flags, callback, out, now,
                   n_calls, measured>>
    /\ UNCHANGED batchVars

\* data_storage[analyte]['violations'].append(violation)
LogViolation ==
    /\ producer.pc = "log"
    /\ data_storage' = [data_storage EXCEPT
                           ![Analyte].violations =
                               DequeAppend(@, producer.violation, max_violations)]
    /\ producer' = [producer EXCEPT !.pc = "set_alert"]
    /\ UNCHANGED <<stats_storage, alert_flags, callback, out, now, n_calls, measured>>
    /\ UNCHANGED batchVars

\* alert_flags[analyte]['status'] = 'ALERT'
SetAlert ==
    /\ producer.pc = "set_alert"
    /\ alert_flags' = [alert_flags EXCEPT ![Analyte].status = "ALERT"]
    /\ producer' = [producer EXCEPT !.pc = "set_message"]
    /\ UNCHANGED <<data_storage, stats_storage, callback, out, now, n_calls, measured>>
    /\ UNCHANGED batchVars

\* alert_flags[analyte]['message'] = violation['message']
SetMessage ==
    /\ producer.pc = "set_message"
    /\ alert_flags' = [alert_flags EXCEPT
                          ![Analyte].message = producer.violation.message]
    /\ producer' = [producer EXCEPT !.pc = "count"]
    /\ UNCHANGED <<data_storage, stats_storage, callback, out, now, n_calls, measured>>
    /\ UNCHANGED batchVars

\* alert_flags[analyte]['count'] += 1
CountViolation ==
    /\ producer.pc = "count"
    /\ alert_flags' = [alert_flags EXCEPT ![Analyte].count = @ + 1]
    /\ producer' = [producer EXCEPT !.pc = "stats"]
    /\ UNCHANGED <<data_storage, stats_storage, callback, out, now, n_calls, measured>>
    /\ UNCHANGED batchVars

\* else: if alert_flags[analyte]['count'] == 0:
TestCount ==
    /\ producer.pc = "test_count"
    /\ producer' = [producer EXCEPT
                       !.pc = IF alert_flags[Analyte].count = 0 THEN "set_ok"
                              ELSE "stats"]
    /\ UNCHANGED <<data_storage, stats_storage, alert_flags, callback, out, now,
                   n_calls, measured>>
    /\ UNCHANGED batchVars

\* alert_flags[analyte]['status'] = 'OK'
SetOk ==
    /\ producer.pc = "set_ok"
    /\ alert_flags' = [alert_flags EXCEPT ![Analyte].status = "OK"]
    /\ producer' = [producer EXCEPT !.pc = "set_ok_message"]
    /\ UNCHANGED <<data_storage, stats_storage, callback, out, now, n_calls, measured>>
    /\ UNCHANGED batchVars

\* alert_flags[analyte]['message'] = 'All controls within limits'
SetOkMessage ==
    /\ producer.pc = "set_ok_message"
    /\ alert_flags' = [alert_flags EXCEPT
                          ![Analyte].message = "All controls within limits"]
    /\ producer' = [producer EXCEPT !.pc = "stats"]
    /\ UNCHANGED <<data_storage, stats_storage, callback, out, now, n_calls, measured>>
    /\ UNCHANGED batchVars

\* update_statistics: values = list(storage['values']);
\* if len(values) < 3: return
StatsRead ==
    /\ producer.pc = "stats"
    /\ LET vals == data_storage[Analyte].values
       IN  producer' = IF Len(vals) < 3 THEN NextIteration
                       ELSE [producer EXCEPT !.pc = "stats_write", !.values = vals]
    /\ UNCHANGED <<data_storage, stats_storage, alert_flags, callback, out, now,
                   n_calls, measured>>
    /\ UNCHANGED batchVars

\* update_statistics: stats_storage[analyte] = {...}
StatsWrite ==
    /\ producer.pc = "stats_write"
    /\ stats_storage' = [stats_storage EXCEPT ![Analyte] = Statistics(producer.values)]
    /\ producer' = NextIteration
    /\ UNCHANGED <<data_storage, alert_flags, callback, out, now, n_calls, measured>>
    /\ UNCHANGED batchVars

\* time.sleep(2), back to the top of the while loop
Sleep ==
    /\ producer.pc = "sleep"
    /\ now < MaxTicks * Len(Analytes)
    /\ producer' = ProducerStart
    /\ UNCHANGED <<data_storage, stats_storage, alert_flags, callback, out, now,
                   n_calls, measured>>
    /\ UNCHANGED batchVars

---------------------------------------------------------------------------
(* The Dash callbacks, served on the server's threads while data_generator *)
(* runs.  One callback is served at a time; a callback that reads the      *)
(* shared state more than once is one action per read.                     *)

\* a callback can be started
Free == callback.name = "none" /\ n_calls < MaxCalls

\* the callback record of a started callback
Started(name, at, a) == [NoCallback EXCEPT !.name = name, !.pc = at, !.analyte = a]

\* update_time
UpdateTime ==
    /\ Free
    /\ out' = [callback |-> "update_time", value |-> now]
    /\ n_calls' = n_calls + 1
    /\ UNCHANGED <<data_storage, stats_storage, alert_flags, producer, callback,
                   now, measured>>
    /\ UNCHANGED batchVars

\* update_creatinine_alert, update_urea_alert: alert = alert_flags[a];
\* if alert['status'] == 'ALERT': ... else the OK panel
UpdateAlertStatus(a) ==
    /\ Free
    /\ n_calls' = n_calls + 1
    /\ IF alert_flags[a].status = "ALERT"
       THEN /\ callback' = Started("update_alert", "message", a)
            /\ out' = out
       ELSE /\ callback' = callback
            /\ out' = [callback |-> "update_alert", analyte |-> a,
                       panel |-> "OK", message |-> "All controls within limits",
                       count |-> 0]
    /\ UNCHANGED <<data_storage, stats_storage, alert_flags, producer, now, measured>>
    /\ UNCHANGED batchVars

\* html.P(alert['message'])
UpdateAlertMessage ==
    /\ callback.name = "update_alert"
    /\ callback.pc = "message"
    /\ callback' = [callback EXCEPT
                       !.pc = "count",
                       !.acc = <<alert_flags[callback.analyte].message>>]
    /\ UNCHANGED <<data_storage, stats_storage, alert_flags, producer, out, now,
                   n_calls, measured>>
    /\ UNCHANGED batchVars

\* html.P(f"Total Violations: {alert['count']}"); return
UpdateAlertCount ==
    /\ callback.name = "update_alert"
    /\ callback.pc = "count"
    /\ out' = [callback |-> "update_alert", analyte |-> callback.analyte,
               panel |-> "ALERT", message |-> callback.acc[1],
               count |-> alert_flags[callback.analyte].count]
    /\ callback' = NoCallback
    /\ UNCHANGED <<data_storage, stats_storage, alert_flags, producer, now,
                   n_calls, measured>>
    /\ UNCHANGED batchVars

\* update_creatinine_chart, update_urea_chart: times = list(storage['times'])
UpdateChartTimes(a) ==
    /\ Free
    /\ n_calls' = n_calls + 1
    /\ callback' = [Started("update_chart", "values", a) EXCEPT
                       !.times = data_storage[a].times]
    /\ UNCHANGED <<data_storage, stats_storage, alert_flags, producer, out, now,
                   measured>>
    /\ UNCHANGED batchVars

\* values = list(storage['values']); the placeholder point when times is
\* empty; the figure with x=times, y=values
UpdateChartValues ==
    /\ callback.name = "update_chart"
    /\ callback.pc = "values"
    /\ LET a    == callback.analyte
           vals == data_storage[a].values
           none == Len(callback.times) = 0
       IN  out' = [callback |-> "update_chart", analyte |-> a,
                   times |-> callback.times, values |-> vals,
                   x |-> IF none THEN <<now>> ELSE callback.times,
                   y |-> IF none THEN <<parameters[a].mean>> ELSE vals]
    /\ callback' = NoCallback
    /\ UNCHANGED <<data_storage, stats_storage, alert_flags, producer, now,
                   n_calls, measured>>
    /\ UNCHANGED batchVars

\* update_creatinine_stats, update_urea_stats: stats = stats_storage[a]
UpdateStats(a) ==
    /\ Free
    /\ n_calls' = n_calls + 1
    /\ out' = [callback |-> "update_stats", analyte |-> a, stats |-> stats_storage[a]]
    /\ UNCHANGED <<data_storage, stats_storage, alert_flags, producer, callback,
                   now, measured>>
    /\ UNCHANGED batchVars

\* the entries of update_violations_log for the violations of analyte a
LogEntries(a, violations) ==
    [k \in 1..Len(violations) |->
        [analyte |-> a, time |-> violations[k].time, rule |-> violations[k].rule,
         severity |-> violations[k].severity, message |-> violations[k].message,
         value |-> violations[k].value]]

\* insertion of entry x into a list sorted by time, most recent first,
\* after the entries of the same time
RECURSIVE InsertRecent(_, _)
InsertRecent(x, es) ==
    IF es = <<>> THEN <<x>>
    ELSE IF es[Len(es)].time >= x.time THEN Append(es, x)
    ELSE Append(InsertRecent(x, SubSeq(es, 1, Len(es) - 1)), es[Len(es)])

\* all_violations.sort(key=lambda x: x['time'], reverse=True)
RECURSIVE SortRecent(_)
SortRecent(es) ==
    IF es = <<>> THEN <<>>
    ELSE InsertRecent(es[Len(es)], SortRecent(SubSeq(es, 1, Len(es) - 1)))

\* update_violations_log: list(data_storage['creatinine']['violations'])
UpdateLogFirst ==
    /\ Free
    /\ n_calls' = n_calls + 1
    /\ callback' = [Started("update_violations_log", "second", Analytes[1]) EXCEPT
                       !.acc = LogEntries(Analytes[1],
                                          data_storage[Analytes[1]].violations)]
    /\ UNCHANGED <<data_storage, stats_storage, alert_flags, producer, out, now,
                   measured>>
    /\ UNCHANGED batchVars

\* list(data_storage['urea']['violations']); the sort; the ten most recent
UpdateLogSecond ==
    /\ callback.name = "update_violations_log"
    /\ callback.pc = "second"
    /\ LET all    == callback.acc \o LogEntries(Analytes[2],
                                                data_storage[Analytes[2]].violations)
           sorted == SortRecent(all)
       IN  out' = [callback |-> "update_violations_log",
                   shown |-> SubSeq(sorted, 1, IF Len(sorted) < 10 THEN Len(sorted)
                                               ELSE 10)]
    /\ callback' = NoCallback
    /\ UNCHANGED <<data_storage, stats_storage, alert_flags, producer, now,
                   n_calls, measured>>
    /\ UNCHANGED batchVars

\* export_data: times = list(data_storage['creatinine']['times'])
ExportStart ==
    /\ Free
    /\ n_calls' = n_calls + 1
    /\ callback' = [Started("export_data", "values", Analytes[1]) EXCEPT
                       !.times = data_storage[Analytes[1]].times]
    /\ UNCHANGED <<data_storage, stats_storage, alert_flags, producer, out, now,
                   measured>>
    /\ UNCHANGED batchVars

\* the rows  for t, v in zip(times, values)  with their Analyte, Time and
\* Value columns
ExportRows(a, times, vals) ==
    [k \in 1..(IF Len(times) < Len(vals) THEN Len(times) ELSE Len(vals)) |->
        [Analyte |-> a, Time |-> times[k], Value |-> vals[k]]]

\* export_data: values = list(data_storage[analyte]['values']) and the zip
\* loop; after the last analyte the CSV is returned
ExportValues ==
    /\ callback.name = "export_data"
    /\ callback.pc = "values"
    /\ LET a    == callback.analyte
           vals == data_storage[a].values
           copy == [analyte |-> a, times |-> callback.times, values |-> vals,
                    rows |-> ExportRows(a, callback.times, vals)]
       IN  IF a = Analytes[1]
           THEN /\ callback' = [callback EXCEPT
                                   !.pc = "times", !.analyte = Analytes[2],
                                   !.acc = <<copy>>]
                /\ out' = out
           ELSE /\ callback' = NoCallback
                /\ out' = [callback |-> "export_data",
                           copies |-> Append(callback.acc, copy)]
    /\ UNCHANGED <<data_storage, stats_storage, alert_flags, producer, now,
                   n_calls, measured>>
    /\ UNCHANGED batchVars

\* export_data: times = list(data_storage['urea']['times'])
ExportTimes ==
    /\ callback.name = "export_data"
    /\ callback.pc = "times"
    /\ callback' = [callback EXCEPT
                       !.pc = "values",
                       !.times = data_storage[callback.analyte].times]
    /\ UNCHANGED <<data_storage, stats_storage, alert_flags, producer, out, now,
                   n_calls, measured>>
    /\ UNCHANGED batchVars

\* reset_data: data_storage['creatinine']['times'].clear()
ResetStart ==
    /\ Free
    /\ n_calls' = n_calls + 1
    /\ callback' = Started("reset_data", "values", Analytes[1])
    /\ data_storage' = [data_storage EXCEPT ![Analytes[1]].times = <<>>]
    /\ UNCHANGED <<stats_storage, alert_flags, producer, out, now, measured>>
    /\ UNCHANGED batchVars

\* reset_data: data_storage['urea']['times'].clear()
ResetTimes ==
    /\ callback.name = "reset_data"
    /\ callback.pc = "times"
    /\ data_storage' = [data_storage EXCEPT ![callback.analyte].times = <<>>]
    /\ callback' = [callback EXCEPT !.pc = "values"]
    /\ UNCHANGED <<stats_storage, alert_flags, producer, out, now, n_calls, measured>>
    /\ UNCHANGED batchVars

\* reset_data: data_storage[analyte]['values'].clear()
ResetValues ==
    /\ callback.name = "reset_data"
    /\ callback.pc = "values"
    /\ data_storage' = [data_storage EXCEPT ![callback.analyte].values = <<>>]
    /\ callback' = [callback EXCEPT !.pc = "violations"]
    /\ UNCHANGED <<stats_storage, alert_flags, producer, out, now, n_calls, measured>>
    /\ UNCHANGED batchVars

\* reset_data: data_storage[analyte]['violations'].clear()
ResetViolations ==
    /\ callback.name = "reset_data"
    /\ callback.pc = "violations"
    /\ data_storage' = [data_storage EXCEPT ![callback.analyte].violations = <<>>]
    /\ callback' = [callback EXCEPT !.pc = "stats"]
    /\ UNCHANGED <<stats_storage, alert_flags, producer, out, now, n_calls, measured>>
    /\ UNCHANGED batchVars

\* reset_data: stats_storage[analyte] = {'mean': 0, ...}
ResetStats ==
    /\ callback.name = "reset_data"
    /\ callback.pc = "stats"
    /\ stats_storage' = [stats_storage EXCEPT ![callback.analyte] = ZeroStats]
    /\ callback' = [callback EXCEPT !.pc = "flags"]
    /\ UNCHANGED <<data_storage, alert_flags, producer, out, now, n_calls, measured>>
    /\ UNCHANGED batchVars

\* reset_data: alert_flags[analyte] = {'status': 'OK', ...}; after the last
\* analyte, return 0
ResetFlags ==
    /\ callback.name = "reset_data"
    /\ callback.pc = "flags"
    /\ alert_flags' = [alert_flags EXCEPT ![callback.analyte] = OkFlags]
    /\ IF callback.analyte = Analytes[1]
       THEN /\ callback' = [callback EXCEPT !.pc = "times", !.analyte = Analytes[2]]
            /\ out' = out
       ELSE /\ callback' = NoCallback
            /\ out' = [callback |-> "reset_data", n_intervals |-> 0]
    /\ UNCHANGED <<data_storage, stats_storage, producer, now, n_calls, measured>>
    /\ UNCHANGED batchVars

NextStream ==
    \/ StoreTime
    \/ StoreValue
    \/ Check
    \/ LogViolation
    \/ SetAlert
    \/ SetMessage
    \/ CountViolation
    \/ TestCount
    \/ SetOk
    \/ SetOkMessage
    \/ StatsRead
    \/ StatsWrite
    \/ Sleep
    \/ UpdateTime
    \/ \E a \in AnalyteSet : UpdateAlertStatus(a)
    \/ UpdateAlertMessage
    \/ UpdateAlertCount
    \/ \E a \in AnalyteSet : UpdateChartTimes(a)
    \/ UpdateChartValues
    \/ \E a \in AnalyteSet : UpdateStats(a)
    \/ UpdateLogFirst
    \/ UpdateLogSecond
    \/ ExportStart
    \/ ExportValues
    \/ ExportTimes
    \/ ResetStart
    \/ ResetTimes
    \/ ResetValues
    \/ ResetViolations
    \/ ResetStats
    \/ ResetFlags

SpecStream == InitStream /\ [][NextStream]_vars

---------------------------------------------------------------------------
(* Properties *)

N == Len(values)

\* values[0..i]
Prefix(i) == SubSeq(values, 1, i + 1)

\* the violations of a detector's output that carry index i, in output order
AtIndex(viols, i) == SelectSeq(viols, LAMBDA v : v.index = i)

\* the positions of the Westgard output with the given rule and index
WestgardHits(rule, i) ==
    {k \in 1..Len(westgard) : westgard[k].rule = rule /\ westgard[k].index = i}

\* C1: once extended_westgard_rules has returned, a '1-3s' violation is in
\* its output at index i exactly when |values[i] - mean| > 3*std (strictly: a
\* value at mean +- 3*std is not reported), and every such violation is
\* CRITICAL.
C1_Rule13sStrict ==
    WestgardReturned =>
        \A i \in 0..(N - 1) :
            /\ (WestgardHits("1-3s", i) # {}) <=> (Abs(At(values, i) - mean) > 3 * std)
            /\ \A k \in WestgardHits("1-3s", i) : westgard[k].severity = "CRITICAL"

\* a series holding a point exactly at mean + 3*std, not reported, and a
\* point just beyond it, reported
C1_Witness ==
    /\ WestgardReturned
    /\ \E i, j \in 0..(N - 1) :
         /\ At(values, i) = mean + 3 * std
         /\ WestgardHits("1-3s", i) = {}
         /\ At(values, j) > mean + 3 * std
         /\ At(values, j) - (mean + 3 * std) <= std \div 10
         /\ WestgardHits("1-3s", j) # {}

\* the five detectors that evaluate index i from values[0..i] alone
NoLookAheadWindowed(i) ==
    /\ WestgardReturned =>
         AtIndex(westgard, i) = AtIndex(extended_westgard_rules(Prefix(i)), i)
    /\ CusumReturned =>
         AtIndex(cusum_result.violations, i)
            = AtIndex(cusum_detection(Prefix(i)).violations, i)
    /\ EwmaReturned =>
         AtIndex(ewma_result.violations, i)
            = AtIndex(ewma_detection(Prefix(i)).violations, i)
    /\ TrendReturned =>
         AtIndex(trends, i) = AtIndex(trend_detection(Prefix(i), trend_window), i)
    /\ RunReturned =>
         AtIndex(runs, i) = AtIndex(run_analysis(Prefix(i)), i)

\* the robust anomaly detector, where it returns on the truncated series
NoLookAheadAnomaly(i) ==
    (AnomalyReturned /\ anomaly_detection_zscore(Prefix(i), threshold).ok) =>
        AtIndex(anomalies.violations, i)
            = AtIndex(anomaly_detection_zscore(Prefix(i), threshold).violations, i)

\* C2 (as amended): for the Westgard, CUSUM, EWMA, trend and run/pattern
\* detectors, the violations reported at index i on the truncated series
\* values[0..i] are the violations reported at index i on the full series,
\* for every series and every index i.
C2_NoLookAhead == \A i \in 0..(N - 1) : NoLookAheadWindowed(i)

\* the trend detector has reported a violation at an index that is followed
\* by further points
C2_Witness ==
    /\ TrendReturned
    /\ \E k \in 1..Len(trends) : trends[k].index < N - 1

\* C2 (as claimed): the same for all six detectors, the robust anomaly
\* detector included.
C2_NoLookAheadAll ==
    \A i \in 0..(N - 1) : NoLookAheadWindowed(i) /\ NoLookAheadAnomaly(i)

\* 20 points, all exactly the target mean
Flat20 == N = 20 /\ \A k \in 1..N : values[k] = mean

\* C3 (as claimed): on 20 points all equal to the mean, comprehensive_analysis
\* completes, each of the six detectors reports no violation, and the summary
\* has total_violations = 0 and the in-control message.
C3_FlatInControl ==
    (Flat20 /\ pc \in {"done", "raised"}) =>
        /\ pc = "done"
        /\ westgard = <<>>
        /\ cusum_result.violations = <<>>
        /\ ewma_result.violations = <<>>
        /\ anomalies.ok /\ anomalies.violations = <<>>
        /\ trends = <<>>
        /\ runs = <<>>
        /\ summary.total_violations = 0
        /\ summary.message = "IN_CONTROL"

\* C4 (as claimed): when the median absolute deviation of the series is 0,
\* anomaly_detection_zscore returns normally with no anomaly, whatever the
\* threshold.
C4_ZeroMadNoAnomaly ==
    (pc \in {"anomaly_returned", "anomaly_raised"} /\ N > 0 /\ Mad4(values) = 0) =>
        /\ pc = "anomaly_returned"
        /\ anomalies.ok
        /\ anomalies.violations = <<>>

\* C5 (as claimed): with std > 0 a run of comprehensive_analysis is never
\* aborted by a detector and, once returned, has exactly one of the three
\* dispositions.
C5_RunNeverAborts ==
    std > 0 =>
        /\ pc # "raised"
        /\ pc = "done" => summary.message \in {"IN_CONTROL", "NEEDS_REVIEW", "REJECT"}

\* C6: the CUSUM sums are never negative, and on a series whose values all
\* equal the mean both sums are 0 at every index and no CUSUM violation is
\* reported.
C6_CusumNonNegative ==
    CusumReturned =>
        /\ Len(cusum_result.cusum_pos) = N
        /\ Len(cusum_result.cusum_neg) = N
        /\ \A k \in 1..N : cusum_result.cusum_pos[k] >= 0 /\ cusum_result.cusum_neg[k] >= 0
        /\ (\A k \in 1..N : values[k] = mean) =>
              /\ \A k \in 1..N : cusum_result.cusum_pos[k] = 0 /\ cusum_result.cusum_neg[k] = 0
              /\ cusum_result.violations = <<>>

\* both sums have been positive and floored at zero again
C6_Witness ==
    /\ CusumReturned
    /\ \E k \in 2..N : cusum_result.cusum_pos[k - 1] > 0 /\ cusum_result.cusum_pos[k] = 0
    /\ \E k \in 2..N : cusum_result.cusum_neg[k - 1] > 0 /\ cusum_result.cusum_neg[k] = 0

\* a CUSUM violation of the given type is reported at index i
CusumReported(type, i) ==
    \E k \in 1..Len(cusum_result.violations) :
        cusum_result.violations[k] = [index |-> i, type |-> type, severity |-> "CRITICAL"]

\* the sum s (held times cusum_k_den * std) exceeds h
AboveH(s) == s > cusum_h * cusum_k_den * std

\* C7: CUSUM_HIGH (CUSUM_LOW) is reported at every index whose sum pos_i
\* (neg_i) exceeds h; and when pos_i > h and z_{i+1} >= k, CUSUM_HIGH is
\* reported again at i+1 with pos_{i+1} = pos_i + z_{i+1} - k.
C7_CusumNoReset ==
    (CusumReturned /\ std > 0) =>
        \A i \in 0..(N - 1) :
            /\ AboveH(At(cusum_result.cusum_pos, i)) => CusumReported("CUSUM_HIGH", i)
            /\ AboveH(At(cusum_result.cusum_neg, i)) => CusumReported("CUSUM_LOW", i)
            /\ ( /\ i + 1 < N
                 /\ AboveH(At(cusum_result.cusum_pos, i))
                 /\ cusum_k_den * (At(values, i + 1) - mean) >= cusum_k_num * std )
               => /\ CusumReported("CUSUM_HIGH", i + 1)
                  /\ At(cusum_result.cusum_pos, i + 1)
                       = At(cusum_result.cusum_pos, i)
                           + cusum_k_den * (At(values, i + 1) - mean) - cusum_k_num * std

\* a sum above h is followed by a point with z >= k, and both indices are
\* reported
C7_Witness ==
    /\ CusumReturned
    /\ \E i \in 0..(N - 2) :
         /\ AboveH(At(cusum_result.cusum_pos, i))
         /\ cusum_k_den * (At(values, i + 1) - mean) >= cusum_k_num * std
         /\ CusumReported("CUSUM_HIGH", i)
         /\ CusumReported("CUSUM_HIGH", i + 1)

\* the first ten points are strictly above the mean and within 1 std of it
FirstTenAbove ==
    /\ N >= 10
    /\ \A j \in 0..9 : At(values, j) > mean /\ At(values, j) <= mean + std

\* C8: when the first ten points are all strictly above the mean (within 1
\* std), the Westgard output holds a CRITICAL '10-x' at index 9 and no '10-x'
\* at an index below 9.
C8_TenXAtNine ==
    (WestgardReturned /\ FirstTenAbove) =>
        /\ \E k \in WestgardHits("10-x", 9) : westgard[k].severity = "CRITICAL"
        /\ \A i \in 0..8 : WestgardHits("10-x", i) = {}

\* such a series, with unequal points, has been evaluated
C8_Witness ==
    /\ WestgardReturned
    /\ FirstTenAbove
    /\ At(values, 0) # At(values, 1)
    /\ WestgardHits("10-x", 9) # {}

\* flat at the mean but for one point of mean + 3.5*std at index 10
SpikeAtTen ==
    /\ N >= 11
    /\ \A j \in 0..(N - 1) :
         2 * At(values, j) = IF j = 10 THEN 2 * mean + 7 * std ELSE 2 * mean

\* C9: on a series flat at the mean but for one point of mean + 3.5*std at
\* index 10, the Westgard output is exactly one violation: '1-3s', CRITICAL,
\* at index 10.
C9_SingleSpike ==
    (WestgardReturned /\ SpikeAtTen) =>
        westgard = <<[index |-> 10, rule |-> "1-3s", severity |-> "CRITICAL"]>>

\* such a series, with points after the spike, has been evaluated
C9_Witness == WestgardReturned /\ SpikeAtTen /\ N >= 12 /\ Len(westgard) = 1

\* the points are alternately mean + d and mean - d for some d > 0
Alternating ==
    \E d \in 1..(3 * std) :
        \/ \A k \in 1..N : values[k] = mean + (IF k % 2 = 1 THEN d ELSE -d)
        \/ \A k \in 1..N : values[k] = mean + (IF k % 2 = 1 THEN -d ELSE d)

\* C10: on a strictly alternating series run_analysis reports RUN_RULE_6/7 at
\* no index.
C10_NoRunOnAlternating ==
    (RunReturned /\ Alternating) =>
        \A k \in 1..Len(runs) : runs[k].type # "RUN_RULE_6/7"

\* an alternating series long enough for the run rule has been evaluated,
\* and its alternation has been reported as a zigzag
C10_Witness ==
    /\ RunReturned
    /\ Alternating
    /\ N >= 9
    /\ \E k \in 1..Len(runs) : runs[k].type = "ZIGZAG_PATTERN"

---------------------------------------------------------------------------
(* The merged report *)

\* the frame pd.concat builds from the six detectors' results
Concatenated ==
    Concat(westgard, cusum_result.violations, ewma_result.violations,
           anomalies.violations, trends, runs)

Merged == pc \in {"merged", "done"}

Ascending(rows) ==
    \A k \in 1..(Len(rows) - 1) : rows[k].index <= rows[k + 1].index

\* C11: the merged violation list of comprehensive_analysis is in
\* non-decreasing index order.
C11_MergedAscending == Merged => Ascending(all_violations)

\* a merged list of a run whose concatenated frame was not in index order
C11_Witness ==
    /\ Merged
    /\ Len(all_violations) >= 2
    /\ ~Ascending(Concatenated)

Severities(rows) == {rows[k].severity : k \in 1..Len(rows)}

\* C13: the disposition is exactly one of three and follows the worst
\* severity: REJECT iff some violation is CRITICAL, NEEDS_REVIEW iff there
\* is a violation and none is CRITICAL, IN_CONTROL iff there is none; the
\* fourth branch of _generate_summary ('QC is acceptable') is never taken.
C13_Disposition ==
    pc = "done" =>
        /\ summary.message \in {"REJECT", "NEEDS_REVIEW", "IN_CONTROL"}
        /\ summary.message = "REJECT" <=> "CRITICAL" \in Severities(all_violations)
        /\ summary.message = "NEEDS_REVIEW" <=>
               /\ Len(all_violations) >= 1
               /\ "CRITICAL" \notin Severities(all_violations)
        /\ summary.message = "IN_CONTROL" <=> Len(all_violations) = 0

\* a report with both warnings and critical violations
C13_Witness ==
    /\ pc = "done"
    /\ Severities(all_violations) = {"CRITICAL", "WARNING"}
    /\ summary.message = "REJECT"

C13_WitnessReview == pc = "done" /\ summary.message = "NEEDS_REVIEW"

C13_WitnessInControl == pc = "done" /\ summary.message = "IN_CONTROL"

\* the violation lists the detectors have returned so far
DetectorLists ==
    <<westgard, cusum_result.violations, ewma_result.violations,
      anomalies.violations, trends, runs>>

\* C14: critical + warning = total_violations in the summary; every
\* violation of each of the six detectors has severity 'CRITICAL' or
\* 'WARNING'.
C14_SeverityPartition ==
    /\ pc = "done" =>
           summary.critical + summary.warning = summary.total_violations
    /\ \A d \in 1..6 : Severities(DetectorLists[d]) \subseteq {"CRITICAL", "WARNING"}
    /\ Severities(all_violations) \subseteq {"CRITICAL", "WARNING"}

\* a summary that counts violations of both severities
C14_Witness ==
    /\ pc = "done"
    /\ summary.critical > 0
    /\ summary.warning > 0

Indices(rows) == {rows[k].index : k \in 1..Len(rows)}

\* C15: every violation of every detector, and every entry of the merged
\* report, has an index i with 0 <= i < n, n the length of the series.
C15_IndexInRange ==
    /\ \A d \in 1..6 : Indices(DetectorLists[d]) \subseteq 0..(N - 1)
    /\ Indices(all_violations) \subseteq 0..(N - 1)

\* a merged report with Westgard and trend violations at the last point
C15_Witness ==
    /\ pc = "done"
    /\ N - 1 \in Indices(westgard)
    /\ N - 1 \in Indices(trends)
    /\ N - 1 \in Indices(all_violations)

\* a report with a run violation at the last point, one with a violation
\* at the first point
C15_WitnessRun == pc = "done" /\ N - 1 \in Indices(runs)

C15_WitnessFirst == pc = "done" /\ 0 \in Indices(all_violations)

\* C16: with lambda = 1 the EWMA is the series itself: ewma[0] = values[0]
\* and ewma[i] = values[i] for every i >= 1.
C16_LambdaOne ==
    (pc = "ewma_returned" /\ ewma_lambda.num = ewma_lambda.den) =>
        /\ Len(ewma_result.ewma) = N
        /\ \A i \in 0..(N - 1) :
               At(ewma_result.ewma, i) = [int |-> At(values, i), frac |-> <<>>]

\* the EWMA of a series that moves, computed with lambda = 1
C16_Witness ==
    /\ pc = "ewma_returned"
    /\ ewma_lambda.num = ewma_lambda.den
    /\ N >= 3
    /\ At(values, 0) # At(values, 1)
    /\ At(values, 1) # At(values, 2)

---------------------------------------------------------------------------
(* Parameter validation and persistence *)

\* C17 (as claimed): invalid parameters fail fast: with std <= 0 the
\* construction or the first detector call raises, so no detector ever runs
\* and no violation list or report is produced.
C17_InvalidStdFailsFast ==
    std <= 0 =>
        /\ ~WestgardReturned
        /\ ~CusumReturned
        /\ ~EwmaReturned
        /\ ~AnomalyReturned
        /\ ~TrendReturned
        /\ ~RunReturned
        /\ ~Merged

\* C18: persistence failures are isolated: whether save_dir is absent,
\* every save step succeeds or any of them raises, the step from the merged
\* list to the return is always taken to the end, leaves the merged list
\* and the six detectors' results as they are, and returns the summary of
\* the merged list.
C18_SaveIsolated ==
    [][pc = "merged" =>
          /\ pc' = "done"
          /\ UNCHANGED <<westgard, cusum_result, ewma_result, anomalies, trends,
                         runs, all_violations>>
          /\ summary' = generate_summary(all_violations)]_vars

\* a returned report with violations, of a call whose save block lost a file
C18_Witness ==
    /\ pc = "done"
    /\ save_dir # "None"
    /\ files # SaveAttempts(save_dir, cusum_result, ewma_result)
    /\ Len(all_violations) > 0

\* the same, every file written, and with no file written
C18_WitnessSaved ==
    /\ pc = "done"
    /\ save_dir # "None"
    /\ files = SaveAttempts(save_dir, cusum_result, ewma_result)
    /\ "cusum_violations.csv" \in files

C18_WitnessNothingSaved ==
    /\ pc = "done"
    /\ save_dir # "None"
    /\ files = {}
    /\ Len(all_violations) > 0

---------------------------------------------------------------------------
(* The streaming web monitor *)

\* the state shared by the data_generator thread and the callbacks
Shared == <<data_storage, stats_storage, alert_flags>>

\* C19 (as claimed): the shared state (times/values buffers, violation log,
\* alert flags, statistics) is modified only by the producer: every step
\* that changes it is a step of the data_generator thread, under every
\* interleaving of the thread with the callbacks.
C19_OnlyProducerWrites == [][Shared' # Shared => producer' # producer]_vars

\* the copies of a times and a values buffer have equal length and element
\* j of each belongs to the same measurement of analyte a
Consistent(a, times, vals) ==
    /\ Len(times) = Len(vals)
    /\ \A j \in 1..Len(times) : <<a, times[j], vals[j]>> \in measured

\* C20 (as claimed): snapshot consistency: the copies a chart update or an
\* export takes of an analyte's times and values buffers have equal length
\* and pair each time with the value of the same measurement, under every
\* interleaving with the producer thread.
C20_SnapshotConsistent ==
    /\ out.callback = "update_chart" =>
           Consistent(out.analyte, out.times, out.values)
    /\ out.callback = "export_data" =>
           \A k \in 1..Len(out.copies) :
               Consistent(out.copies[k].analyte, out.copies[k].times,
                          out.copies[k].values)

---------------------------------------------------------------------------
(* The run and pattern rules *)

\* run_analysis reported a violation of the given type at index i
RunReported(type, i) ==
    \E k \in 1..Len(runs) : runs[k].index = i /\ runs[k].type = type

\* the number of values[i-6..i] strictly above (side = 1) or strictly below
\* (side = -1) the mean
OnSide(i, side) ==
    Cardinality({j \in (i - 6)..i : Sign(At(values, j) - mean) = side})

\* C24: at every index i the run detector visits, RUN_RULE_6/7 is reported
\* exactly when at least 6 of the 7 points values[i-6..i] are strictly above
\* the mean or at least 6 are strictly below it; a point equal to the mean
\* counts for neither side.
C24_RunRuleSides ==
    RunReturned =>
        \A i \in run_start..(N - 1) :
            RunReported("RUN_RULE_6/7", i) <=> (OnSide(i, 1) >= 6 \/ OnSide(i, -1) >= 6)

\* C25: a series whose first 7 points are all above the mean gets a
\* RUN_RULE_6/7 violation at index 6, the first index with a full 7-point
\* window.
C25_RunAtSix ==
    (RunReturned /\ N >= 7 /\ \A j \in 0..6 : At(values, j) > mean) =>
        RunReported("RUN_RULE_6/7", 6)

\* the number of sign reversals among the 7 differences of values[i-7..i]: a
\* positive difference followed by a negative one, or the reverse
Reversals(i) ==
    Cardinality({j \in (i - 7)..(i - 2) :
        LET d1 == At(values, j + 1) - At(values, j)
            d2 == At(values, j + 2) - At(values, j + 1)
        IN  (d1 > 0 /\ d2 < 0) \/ (d1 < 0 /\ d2 > 0)})

\* C26: ZIGZAG_PATTERN is reported at index i >= 7 exactly when the 7
\* differences of values[i-7..i] contain at least 6 sign reversals; a zero
\* difference is not a reversal.
C26_ZigzagReversals ==
    RunReturned =>
        \A i \in 7..(N - 1) :
            RunReported("ZIGZAG_PATTERN", i) <=> Reversals(i) >= 6

---------------------------------------------------------------------------
(* The Westgard trend rule *)

\* the k consecutive differences ending at index i (values[i-k+1] -
\* values[i-k], ..., values[i] - values[i-1]) exist and are all strictly
\* positive or all strictly negative
Trending(i, k) ==
    /\ i >= k
    /\ \/ \A j \in (i - k + 1)..i : At(values, j) > At(values, j - 1)
       \/ \A j \in (i - k + 1)..i : At(values, j) < At(values, j - 1)

\* C27 as stated: '7-T' is reported at index i exactly when the seven
\* consecutive differences ending at i are all strictly positive or all
\* strictly negative, and never before seven differences exist.
C27_SevenDifferences ==
    WestgardReturned =>
        \A i \in 0..(N - 1) : WestgardHits("7-T", i) # {} <=> Trending(i, 7)

\* C27: '7-T' is reported at index i exactly when i >= 6 and the six
\* consecutive differences of the seven points values[i-6..i] are all
\* strictly positive or all strictly negative.
C27_SevenPoints ==
    WestgardReturned =>
        \A i \in 0..(N - 1) : WestgardHits("7-T", i) # {} <=> Trending(i, 6)

\* '7-T' has been reported at index 6, where only six differences exist,
\* and withheld at an index whose last difference breaks the trend
C27_Witness ==
    /\ WestgardReturned
    /\ WestgardHits("7-T", 6) # {}
    /\ \E i \in 7..(N - 1) : WestgardHits("7-T", i) = {} /\ Trending(i - 1, 6)

---------------------------------------------------------------------------
(* The trend detector *)

\* the window values[i-window..i-1] the trend detector fits at index i
TrendWindow(i) == Slice(values, i - trend_window, i)

\* |change| > 5/2 for the fit over window wd, change = slope * window / std
\* and slope = RegA / RegB
ChangeAboveCritical(wd) ==
    2 * Abs(RegA(wd, trend_window)) * trend_window > 5 * RegB(trend_window) * Abs(std)

\* C28: every violation the trend detector emits is at an index i >= window
\* whose fit over values[i-window..i-1] passes both gates (p < 0.05 and
\* |change| > 1.5); its severity is CRITICAL exactly when |change| > 2.5, so
\* |change| = 2.5 is WARNING, and its type is TREND_UPWARD for a positive
\* slope and TREND_DOWNWARD for a negative one.
C28_TrendGates ==
    TrendReturned =>
        \A k \in 1..Len(trends) :
            LET i  == trends[k].index
                wd == TrendWindow(i)
            IN  /\ i >= trend_window
                /\ Significant(wd, trend_window)
                /\ ChangeExceeds(wd, trend_window)
                /\ trends[k].severity = "CRITICAL" <=> ChangeAboveCritical(wd)
                /\ trends[k].severity \in {"CRITICAL", "WARNING"}
                /\ RegA(wd, trend_window) > 0 => trends[k].type = "TREND_UPWARD"
                /\ RegA(wd, trend_window) < 0 => trends[k].type = "TREND_DOWNWARD"

---------------------------------------------------------------------------
(* The aggregator *)

\* the method label of each detector, in the order of DetectorLists
Methods == <<"Westgard", "CUSUM", "EWMA", "Anomaly", "Trend", "Run">>

\* what identifies a violation of detector d, in the detector's output and
\* in the merged report: its index, its rule or type, its severity
Core(v, d) == <<v.index, IF d = 1 THEN v.rule ELSE v.type, v.severity>>

\* the entries of the merged report labelled with the method of detector d
Labelled(d) == SelectSeq(all_violations, LAMBDA row : row.method = Methods[d])

Occurrences(rows, d, c) == Cardinality({k \in 1..Len(rows) : Core(rows[k], d) = c})

\* C29: the merged report is a permutation of the six detectors' outputs:
\* for each detector, the entries that carry its method are its violations,
\* each as often as the detector emitted it, with index and severity
\* unchanged, and no entry carries another label; in the summary the count
\* of each method is the length of that detector's output (a method without
\* violations has no count) and total_violations is their sum.
C29_AggregatorPermutes ==
    /\ Merged =>
        /\ \A k \in 1..Len(all_violations) :
               \E d \in 1..6 : all_violations[k].method = Methods[d]
        /\ \A d \in 1..6 :
               LET emitted == DetectorLists[d]
                   merged  == Labelled(d)
               IN  /\ Len(merged) = Len(emitted)
                   /\ \A k \in 1..Len(emitted) :
                          Occurrences(merged, d, Core(emitted[k], d))
                              = Occurrences(emitted, d, Core(emitted[k], d))
    /\ pc = "done" =>
        /\ \A d \in 1..6 :
               IF Len(DetectorLists[d]) = 0
               THEN Methods[d] \notin DOMAIN summary.methods
               ELSE /\ Methods[d] \in DOMAIN summary.methods
                    /\ summary.methods[Methods[d]] = Len(DetectorLists[d])
        /\ summary.total_violations
               = Len(westgard) + Len(cusum_result.violations)
                   + Len(ewma_result.violations) + Len(anomalies.violations)
                   + Len(trends) + Len(runs)
        /\ summary.total_violations = Len(all_violations)

\* a finished run whose report merges violations of at least five
\* detectors, the run detector among them, in an order that differs from
\* the concatenation
C29_Witness ==
    /\ pc = "done"
    /\ Len(runs) > 0
    /\ Cardinality({d \in 1..6 : Len(DetectorLists[d]) > 0}) >= 5
    /\ all_violations # Concatenated
    /\ Cardinality(DOMAIN summary.methods) >= 5

---------------------------------------------------------------------------
(* The streaming rules against the stream *)

\* the times at which measurements of analyte a were generated
ArrivalTimes(a) == {m[2] : m \in {x \in measured : x[1] = a}}

\* the measurements of analyte a generated so far, in arrival order
Arrivals(a) ==
    LET ts == ArrivalTimes(a)
        at(k) == CHOOSE t \in ts : Cardinality({u \in ts : u <= t}) = k
    IN  [k \in 1..Cardinality(ts) |->
            (CHOOSE m \in measured : m[1] = a /\ m[2] = at(k))[3]]

\* s is the tail of length Len(s) of seq
IsSuffix(s, seq) ==
    /\ Len(s) <= Len(seq)
    /\ s = SubSeq(seq, Len(seq) - Len(s) + 1, Len(seq))

\* the producer is between two iterations of its for loop and no callback
\* is being served
Quiescent == producer.pc \in {"store_time", "sleep"} /\ callback.name = "none"

\* C21: between ticks, whatever resets have run, each analyte's values
\* buffer holds at most max_points measurements, they are the most recent
\* measurements in arrival order, and the times buffer has the same length.
C21_TrailingWindow ==
    Quiescent =>
        \A a \in AnalyteSet :
            /\ Len(data_storage[a].values) <= max_points
            /\ IsSuffix(data_storage[a].values, Arrivals(a))
            /\ Len(data_storage[a].times) = Len(data_storage[a].values)

\* check_westgard_violation has just returned for the new measurement
Checked == producer.pc \in {"log", "test_count"}

\* the measurement of the current analyte that precedes the new one in the
\* stream, as a sequence of length 0 or 1
Preceding ==
    LET s == Arrivals(Analyte)
    IN  IF Len(s) >= 2 THEN <<s[Len(s) - 1]>> ELSE <<>>

\* C22: on a tick, '2-2s' is reported only if the preceding measurement of
\* the stream also has |z| > 2, on the same side as the new one, and 'R-4s'
\* is reported whenever the new measurement is more than 4*std away from
\* the preceding one and neither '1-3s' nor '2-2s' applies.
C22_TwoPointRules ==
    Checked =>
        LET m   == parameters[Analyte].mean
            sd  == parameters[Analyte].std
            new == producer.new_value
            two == /\ Preceding # <<>>
                   /\ Abs(new - m) > 2 * sd
                   /\ Abs(Preceding[1] - m) > 2 * sd
                   /\ Sign(new - m) = Sign(Preceding[1] - m)
        IN  /\ producer.violation.rule = "2-2s" => two
            /\ ( /\ Preceding # <<>>
                 /\ Abs(new - Preceding[1]) > 4 * sd
                 /\ Abs(new - m) <= 3 * sd
                 /\ ~two ) => producer.violation.rule = "R-4s"

\* C23: the streaming check reports '1-3s' for the measurement appended at
\* tick i exactly when the batch evaluator, built with the same mean and
\* std, emits '1-3s' at index i of the series of measurements so far, the
\* first and the second measurement included.
C23_Rule13sAgrees ==
    (Checked /\ parameters[Analyte].mean = mean /\ parameters[Analyte].std = std) =>
        LET series == Arrivals(Analyte)
            i      == Len(series) - 1
            batch  == extended_westgard_rules(series)
        IN  producer.violation.rule = "1-3s"
                <=> \E k \in 1..Len(batch) : batch[k].index = i /\ batch[k].rule = "1-3s"

\* C30: in the web monitor, between ticks, a status of 'OK' means that no
\* violation has been counted since the last reset; a status of 'ALERT' is
\* left only by reset_data, and the count is lowered only by reset_data.
C30_AlertLatches ==
    /\ [](Quiescent =>
            \A a \in AnalyteSet :
                alert_flags[a].status = "OK" => alert_flags[a].count = 0)
    /\ [][\A a \in AnalyteSet :
            ( \/ alert_flags[a].status = "ALERT" /\ alert_flags'[a].status # "ALERT"
              \/ alert_flags'[a].count < alert_flags[a].count )
                => callback.name = "reset_data"]_vars

====
